---- MODULE Spec2Model ----
(***************************************************************************)
(* Image-to-video slideshow compositor of OpenCut: easing, timeline       *)
(* builder, frame resolver (ImageToVideoService) and the two render-job   *)
(* drivers (the useImageToVideo hook and the slideshow page).              *)
(*                                                                         *)
(* Times are exact: a slide or transition duration is an integer number    *)
(* of ticks, one tick being 1/TicksPerSec second, and a frame time         *)
(* frameIndex / fps is the rational (frameIndex * TicksPerSec) / fps       *)
(* ticks.  Progress values are rationals [n, d] in lowest terms.           *)
(***************************************************************************)
EXTENDS Integers, Sequences, FiniteSets, TLC

\* ------------------------------------------------------------------ bounds
\* ticks per second: durations are multiples of 1/TicksPerSec s
TicksPerSec == 2
\* longest slide list
MaxSlides == 2
\* most layers on the canvas at a call of renderFrame
MaxLayers == 4
\* applyEasing is applied to the multiples of 1 / (2 * EasingSteps)
EasingSteps == 12
\* highest frame rate (frames per second)
MaxFps == 3

\* ------------------------------------------------------------- rationals
RECURSIVE GCD(_, _)
GCD(a, b) == IF b = 0 THEN a ELSE GCD(b, a % b)

\* the rational n/d (d > 0) in lowest terms
Rat(n, d) ==
    IF d = 1 THEN [n |-> n, d |-> 1]
    ELSE IF n % d = 0 THEN [n |-> n \div d, d |-> 1]
    ELSE LET g == GCD(d, n % d)
         IN  [n |-> n \div g, d |-> d \div g]

RatOfInt(i) == [n |-> i, d |-> 1]
RatLess(p, q) == p.n * q.d < q.n * p.d
RatLeq(p, q) == p.n * q.d <= q.n * p.d
RatSub(p, q) == Rat(p.n * q.d - q.n * p.d, p.d * q.d)
RatDiv(p, q) == Rat(p.n * q.d, p.d * q.n)
RatAdd(p, q) == Rat(p.n * q.d + q.n * p.d, p.d * q.d)
RatMul(p, q) == Rat(p.n * q.n, p.d * q.d)

\* Math.ceil(n / d) for d > 0
Ceil(n, d) == -((-n) \div d)

\* ------------------------------------------------- numbers as IEEE doubles
\* A JavaScript number is an IEEE 754 binary64 value.  A positive one is
\* kept as its 53 significand bits b1 .. b53 (b1 = 1) and the exponent exp
\* with value 0.b1 b2 .. b53 (binary) * 2^exp; every operation rounds to
\* nearest, ties to even.
Precision == 53

Zero == [exp |-> 0, bits |-> [i \in 1..Precision |-> 0]]

RECURSIVE Pow2(_)
Pow2(n) == IF n = 0 THEN 1 ELSE 2 * Pow2(n - 1)

\* 2^n modulo den
RECURSIVE Pow2Mod(_, _)
Pow2Mod(n, den) ==
    IF n = 0 THEN 1 % den
    ELSE IF n = 1 THEN 2 % den
    ELSE (Pow2Mod(n \div 2, den) * Pow2Mod(n - n \div 2, den)) % den

\* the remainder left after n bits of r / den (0 <= r < den) have been
\* produced by long division: r * 2^n modulo den
DivRem(r, den, n) == (r * Pow2Mod(n, den)) % den

\* the first Precision bits of r / den after the binary point
DivBits(r, den) ==
    [i \in 1..Precision |->
        IF 2 * DivRem(r, den, i - 1) >= den THEN 1 ELSE 0]

\* bits + 1 for a bit sequence that is not all ones
Increment(bits) ==
    LET z == CHOOSE i \in 1..Precision :
                 /\ bits[i] = 0
                 /\ \A j \in (i + 1)..Precision : bits[j] = 1
    IN  [i \in 1..Precision |->
            IF i < z THEN bits[i] ELSE IF i = z THEN 1 ELSE 0]

\* the significand rounded up by one unit in the last place
RoundUp(x) ==
    IF \A i \in 1..Precision : x.bits[i] = 1
    THEN [exp |-> x.exp + 1,
          bits |-> [i \in 1..Precision |-> IF i = 1 THEN 1 ELSE 0]]
    ELSE [exp |-> x.exp, bits |-> Increment(x.bits)]

\* the least e >= 0 with a < b * 2^e
RECURSIVE ExpUp(_, _)
ExpUp(a, b) == IF a < b THEN 0 ELSE 1 + ExpUp(a, 2 * b)

\* for a < b, the largest s >= 0 with a * 2^s < b
RECURSIVE ExpDown(_, _)
ExpDown(a, b) == IF 2 * a >= b THEN 0 ELSE 1 + ExpDown(2 * a, b)

\* the double a / b for integers a >= 0, b > 0: the correctly rounded
\* quotient, which is also the value of the decimal literal a / b when b is
\* a power of ten
DoubleOfQuotient(a, b) ==
    IF a = 0 THEN Zero
    ELSE LET up == ExpUp(a, b)
             down == IF a < b THEN ExpDown(a, b) ELSE 0
             num == a * Pow2(down)
             den == b * Pow2(up)
             bits == DivBits(num, den)
             rem == DivRem(num, den, Precision)
             q == [exp |-> up - down, bits |-> bits]
         IN  IF 2 * rem > den \/ (2 * rem = den /\ bits[Precision] = 1)
             THEN RoundUp(q)
             ELSE q

\* the integer with the binary digits bits[lo] .. bits[hi]
RECURSIVE IntOf(_, _, _)
IntOf(bits, lo, hi) ==
    IF lo > hi THEN 0
    ELSE IF lo = hi THEN bits[lo]
    ELSE LET mid == (lo + hi) \div 2
         IN  IntOf(bits, lo, mid) * Pow2(hi - mid) + IntOf(bits, mid + 1, hi)

\* the exact product of a significand and f is computed in limbs of
\* LimbBits bits, the lowest limb ending at bit Precision
LimbBits == 14
LimbHi(k) == Precision - LimbBits * (k - 1)
LimbLo(k) == IF LimbHi(k) - LimbBits + 1 < 1 THEN 1
             ELSE LimbHi(k) - LimbBits + 1
Limbs == 1..4

\* limb k of bits * f with the carry from the limbs below it, not reduced
RECURSIVE LimbTimes(_, _, _)
LimbTimes(bits, f, k) ==
    IntOf(bits, LimbLo(k), LimbHi(k)) * f
    + (IF k = 1 THEN 0
       ELSE LimbTimes(bits, f, k - 1) \div Pow2(LimbBits))

\* the binary digits of c, most significant first
RECURSIVE Binary(_)
Binary(c) == IF c = 0 THEN << >> ELSE Binary(c \div 2) \o << c % 2 >>

\* the double x * f for a double x >= 0 and an integer f >= 1
DoubleTimes(x, f) ==
    IF x = Zero THEN Zero
    ELSE LET top == LimbTimes(x.bits, f, 4) \div Pow2(LimbHi(4))
             high == Binary(top)
             low == [i \in 1..Precision |->
                       LET k == CHOOSE l \in Limbs :
                                    LimbLo(l) <= i /\ i <= LimbHi(l)
                       IN  (LimbTimes(x.bits, f, k) \div Pow2(LimbHi(k) - i))
                           % 2]
             extra == Len(high)
             prod == [i \in 1..(extra + Precision) |->
                        IF i <= extra THEN high[i] ELSE low[i - extra]]
             kept == [exp |-> x.exp + extra,
                      bits |-> [i \in 1..Precision |-> prod[i]]]
             guard == extra >= 1 /\ prod[Precision + 1] = 1
             sticky == \E i \in (Precision + 2)..(extra + Precision) :
                           prod[i] = 1
         IN  IF guard /\ (sticky \/ prod[Precision] = 1)
             THEN RoundUp(kept)
             ELSE kept

\* Math.ceil(x) for a double 0 <= x < 2^30
DoubleCeil(x) ==
    IF x = Zero THEN 0
    ELSE IF x.exp <= 0 THEN 1
    ELSE IntOf(x.bits, 1, x.exp)
         + (IF \E i \in (x.exp + 1)..Precision : x.bits[i] = 1
            THEN 1 ELSE 0)

\* x < y for doubles x, y >= 0
DoubleLess(x, y) ==
    IF y = Zero THEN FALSE
    ELSE IF x = Zero THEN TRUE
    ELSE \/ x.exp < y.exp
         \/ /\ x.exp = y.exp
            /\ \E i \in 1..Precision :
                   /\ x.bits[i] < y.bits[i]
                   /\ \A j \in 1..(i - 1) : x.bits[j] = y.bits[j]

\* ---------------------------------------------------------------- easing
EasingTypes == {"linear", "ease-in", "ease-out", "ease-in-out"}

\* Math.max(0, Math.min(1, t))
Clamp01(t) ==
    IF RatLess(t, RatOfInt(0)) THEN RatOfInt(0)
    ELSE IF RatLess(RatOfInt(1), t) THEN RatOfInt(1)
    ELSE t

Cube(x) == x * x * x

\* 4 * t * t * t for t = n / d
EaseInOutLow(n, d) == Rat(4 * Cube(n), Cube(d))

\* mutant: the division by 2 is missing
EaseInOutHigh_NotHalved(n, d) == Rat(Cube(d) - Cube(2 * d - 2 * n), Cube(d))

\* 1 - Math.pow(-2 * t + 2, 3) / 2 for t = n / d
EaseInOutHigh(n, d) == Rat(2 * Cube(d) - Cube(2 * d - 2 * n), 2 * Cube(d))

\* mutant: ease-out is 1 - t^3
applyEasing_EaseOutWrong(t, easing) ==
    LET clamped == Clamp01(t)
        n == clamped.n
        d == clamped.d
    IN  CASE easing = "linear" -> clamped
          [] easing = "ease-in" -> Rat(Cube(n), Cube(d))
          [] easing = "ease-out" -> Rat(Cube(d) - Cube(n), Cube(d))
          [] easing = "ease-in-out" ->
                IF 2 * n < d
                THEN EaseInOutLow(n, d)
                ELSE EaseInOutHigh(n, d)
          [] OTHER -> clamped

\* mutant: the argument is used without clamping
applyEasing_NoClamp(t, easing) ==
    LET n == t.n
        d == t.d
    IN  CASE easing = "linear" -> t
          [] easing = "ease-in" -> Rat(Cube(n), Cube(d))
          [] easing = "ease-out" -> Rat(Cube(d) - Cube(d - n), Cube(d))
          [] easing = "ease-in-out" ->
                IF 2 * n < d
                THEN EaseInOutLow(n, d)
                ELSE EaseInOutHigh(n, d)
          [] OTHER -> t

applyEasing(t, easing) ==
    LET clamped == Clamp01(t)
        n == clamped.n
        d == clamped.d
    IN  CASE easing = "linear" -> clamped
          [] easing = "ease-in" -> Rat(Cube(n), Cube(d))
          [] easing = "ease-out" -> Rat(Cube(d) - Cube(d - n), Cube(d))
          [] easing = "ease-in-out" ->
                IF 2 * n < d
                THEN EaseInOutLow(n, d)
                ELSE EaseInOutHigh(n, d)
          [] OTHER -> clamped

\* ------------------------------------------------------------ data model
\* the effect kinds the model draws from (a subset of the sixteen)
TransitionTypes == {"none", "fade", "zoom-in"}

NoTransition == [present |-> FALSE]
NoKenBurns == [present |-> FALSE]

\* the transition configurations the model draws from: every kind of
\* TransitionTypes, two durations (in ticks), three easings
TransitionConfigs ==
    {[present |-> TRUE, type |-> "none", duration |-> 1, easing |-> "linear"],
     [present |-> TRUE, type |-> "fade", duration |-> 1, easing |-> "ease-in"],
     [present |-> TRUE, type |-> "zoom-in", duration |-> 2,
      easing |-> "ease-in-out"]}

\* one pan/zoom spec: scale 1 -> 2, offset (0,0) -> (10,-4)
KenBurnsSpecs ==
    {[present |-> TRUE, startScale |-> 1, endScale |-> 2,
      startPosition |-> [x |-> 0, y |-> 0],
      endPosition |-> [x |-> 10, y |-> -4]]}

\* slide.duration in ticks; 0 is what Number("") or a typed 0 gives the page
Durations == {0, 1, 2}

ImageSlides ==
    [duration : Durations,
     transition : {NoTransition} \cup TransitionConfigs,
     kenBurns : {NoKenBurns} \cup KenBurnsSpecs]

RECURSIVE SeqsUpTo(_, _)
SeqsUpTo(S, n) ==
    IF n = 0 THEN {<< >>}
    ELSE LET shorter == SeqsUpTo(S, n - 1)
         IN  shorter \cup
             {Append(s, x) : s \in {q \in shorter : Len(q) = n - 1}, x \in S}

\* ------------------------------------------------------- timeline builder
\* mutant: a transition of kind none gets an interval
TimelineEntry_KeepsNone(slides, i, currentTime) ==
    LET slide == slides[i]
        endTime == currentTime + slide.duration
    IN  IF i < Len(slides) /\ slide.transition.present
        THEN [slide |-> slide, image |-> i,
              startTime |-> currentTime, endTime |-> endTime,
              transitionOut |->
                  [present |-> TRUE,
                   type |-> slide.transition.type,
                   duration |-> slide.transition.duration,
                   easing |-> slide.transition.easing,
                   startTime |-> endTime,
                   endTime |-> endTime + slide.transition.duration]]
        ELSE [slide |-> slide, image |-> i,
              startTime |-> currentTime, endTime |-> endTime,
              transitionOut |-> NoTransition]

\* mutant: the last slide's transition is not ignored
TimelineEntry_KeepsLast(slides, i, currentTime) ==
    LET slide == slides[i]
        endTime == currentTime + slide.duration
    IN  IF slide.transition.present /\ slide.transition.type # "none"
        THEN [slide |-> slide, image |-> i,
              startTime |-> currentTime, endTime |-> endTime,
              transitionOut |->
                  [present |-> TRUE,
                   type |-> slide.transition.type,
                   duration |-> slide.transition.duration,
                   easing |-> slide.transition.easing,
                   startTime |-> endTime,
                   endTime |-> endTime + slide.transition.duration]]
        ELSE [slide |-> slide, image |-> i,
              startTime |-> currentTime, endTime |-> endTime,
              transitionOut |-> NoTransition]

\* one iteration of the for loop of buildTimeline: the entry of slide i
\* given the running cursor currentTime
TimelineEntry(slides, i, currentTime) ==
    LET slide == slides[i]
        startTime == currentTime
        endTime == startTime + slide.duration
    IN  IF i < Len(slides) /\ slide.transition.present
           /\ slide.transition.type # "none"
        THEN [slide |-> slide, image |-> i,
              startTime |-> startTime, endTime |-> endTime,
              transitionOut |->
                  [present |-> TRUE,
                   type |-> slide.transition.type,
                   duration |-> slide.transition.duration,
                   easing |-> slide.transition.easing,
                   startTime |-> endTime,
                   endTime |-> endTime + slide.transition.duration]]
        ELSE [slide |-> slide, image |-> i,
              startTime |-> startTime, endTime |-> endTime,
              transitionOut |-> NoTransition]

\* mutant: the cursor is not advanced by the transition
EntryEnd_DisplayOnly(entry) == entry.endTime

\* the cursor after the entry
EntryEnd(entry) ==
    IF entry.transitionOut.present THEN entry.transitionOut.endTime
    ELSE entry.endTime

RECURSIVE BuildFrom(_, _, _, _)
BuildFrom(slides, i, currentTime, timeline) ==
    IF i > Len(slides)
    THEN [timeline |-> timeline, totalDuration |-> currentTime]
    ELSE LET entry == TimelineEntry(slides, i, currentTime)
         IN  BuildFrom(slides, i + 1, EntryEnd(entry), Append(timeline, entry))

buildTimeline(slides) == BuildFrom(slides, 1, 0, << >>)

\* mutant: Math.floor instead of Math.ceil
TotalFrames_Floor(totalDuration, fps) == (totalDuration * fps) \div TicksPerSec

\* Math.ceil(totalDuration * fps), totalDuration in ticks
TotalFrames(totalDuration, fps) == Ceil(totalDuration * fps, TicksPerSec)

\* frameIndex / fps, in ticks
FrameTime(frameIndex, fps) == Rat(frameIndex * TicksPerSec, fps)

\* ---------------------------------------------------------- frame resolver
NaN == [n |-> 0, d |-> 0]

\* drawImageCover(img): the image cover-fitted under the current transform,
\* which is the identity when the resolver calls it directly
drawImageCover(image) ==
    [kind |-> "display", image |-> image,
     scale |-> RatOfInt(1), posX |-> RatOfInt(0), posY |-> RatOfInt(0)]

\* start + (end - start) * t
Lerp(start, end, t) == Rat(start * t.d + (end - start) * t.n, t.d)

\* mutant: the slide progress is used without clamping
renderSlideWithKenBurns_NoClamp(entry, time) ==
    LET kb == entry.slide.kenBurns
        t == IF entry.slide.duration = 0 THEN NaN
             ELSE RatDiv(RatSub(time, RatOfInt(entry.startTime)),
                         RatOfInt(entry.slide.duration))
    IN  IF ~kb.present THEN drawImageCover(entry.image)
        ELSE IF t = NaN
        THEN [kind |-> "display", image |-> entry.image,
              scale |-> NaN, posX |-> NaN, posY |-> NaN]
        ELSE [kind |-> "display", image |-> entry.image,
              scale |-> Lerp(kb.startScale, kb.endScale, t),
              posX |-> Lerp(kb.startPosition.x, kb.endPosition.x, t),
              posY |-> Lerp(kb.startPosition.y, kb.endPosition.y, t)]

\* slideProgress = (time - entry.startTime) / slide.duration is 0 / 0 = NaN,
\* +Infinity or -Infinity when the duration is 0; Math.max(0, Math.min(1, .))
\* keeps NaN and clamps the infinities
renderSlideWithKenBurns(entry, time) ==
    LET kb == entry.slide.kenBurns
        elapsed == RatSub(time, RatOfInt(entry.startTime))
        t == IF entry.slide.duration = 0
             THEN IF elapsed = RatOfInt(0) THEN NaN
                  ELSE IF RatLess(RatOfInt(0), elapsed) THEN RatOfInt(1)
                  ELSE RatOfInt(0)
             ELSE Clamp01(RatDiv(elapsed, RatOfInt(entry.slide.duration)))
    IN  IF ~kb.present THEN drawImageCover(entry.image)
        ELSE IF t = NaN
        THEN [kind |-> "display", image |-> entry.image,
              scale |-> NaN, posX |-> NaN, posY |-> NaN]
        ELSE [kind |-> "display", image |-> entry.image,
              scale |-> Lerp(kb.startScale, kb.endScale, t),
              posX |-> Lerp(kb.startPosition.x, kb.endPosition.x, t),
              posY |-> Lerp(kb.startPosition.y, kb.endPosition.y, t)]

\* mutant: the outgoing and the incoming image swapped
renderTransitionFrame_Swapped(from, to, progress, type) ==
    [kind |-> "transition", from |-> to, to |-> from,
     progress |-> progress, type |-> type]

\* the call of renderTransitionFrame made by renderFrame
renderTransitionFrame(from, to, progress, type) ==
    [kind |-> "transition", from |-> from, to |-> to,
     progress |-> progress, type |-> type]

\* mutant: the interval is closed at its end
InInterval_Closed(time, a, b) ==
    RatLeq(RatOfInt(a), time) /\ RatLeq(time, RatOfInt(b))

\* time >= a /\ time < b for a rational time and integer ticks a, b
InInterval(time, a, b) ==
    RatLeq(RatOfInt(a), time) /\ RatLess(time, RatOfInt(b))

\* mutant: no fallback after the loop
PastAllSlides_Nothing(timeline) == << >>

\* "If we're past all slides, show the last one"
PastAllSlides(timeline) ==
    IF Len(timeline) > 0
    THEN << drawImageCover(timeline[Len(timeline)].image) >>
    ELSE << >>

\* the for loop of renderFrame from entry i on: the sequence of render
\* calls it makes
RECURSIVE ResolveFrom(_, _, _)
ResolveFrom(time, timeline, i) ==
    IF i > Len(timeline) THEN PastAllSlides(timeline)
    ELSE LET entry == timeline[i]
             tr == entry.transitionOut
         IN  IF InInterval(time, entry.startTime, entry.endTime)
             THEN << renderSlideWithKenBurns(entry, time) >>
             ELSE IF tr.present /\ InInterval(time, tr.startTime, tr.endTime)
             THEN IF i + 1 > Len(timeline)
                  THEN << renderSlideWithKenBurns(entry, time) >>
                  ELSE LET rawProgress ==
                               RatDiv(RatSub(time, RatOfInt(tr.startTime)),
                                      RatOfInt(tr.endTime - tr.startTime))
                           progress == applyEasing(rawProgress, tr.easing)
                       IN  << renderTransitionFrame(entry.image,
                                  timeline[i + 1].image, progress, tr.type) >>
             ELSE ResolveFrom(time, timeline, i + 1)

renderFrame(time, timeline) == ResolveFrom(time, timeline, 1)

\* ---------------------------------------------------------------- canvas
\* output.width and output.height of the canvas (the smallest the request
\* schema admits)
Width == 64
Height == 64

\* backgroundColor: the default, and a translucent CSS colour
BackgroundColors == {"#000000", "rgba(0,0,0,0.5)"}
Opaque(colour) == colour = "#000000"

\* the current transformation matrix x -> ax * x + cx, y -> ay * y + cy
Identity ==
    [ax |-> RatOfInt(1), cx |-> RatOfInt(0),
     ay |-> RatOfInt(1), cy |-> RatOfInt(0)]

\* the clipping region: the whole canvas, or the rectangle 0 .. w of it
NoClip == [present |-> FALSE, w |-> RatOfInt(Width)]

\* ctx.filter as its blur radius; "none" is radius 0
NoFilter == RatOfInt(0)

\* a canvas and the drawing state of its 2D context.  pixels is the
\* sequence of layers composited since the canvas was last covered or
\* cleared: the bottom layer first
BlankCanvas ==
    [pixels |-> << >>, alpha |-> RatOfInt(1), transform |-> Identity,
     filter |-> NoFilter, clip |-> NoClip, fillStyle |-> "#000000",
     stack |-> << >>]

DrawingState(c) ==
    [alpha |-> c.alpha, transform |-> c.transform, filter |-> c.filter,
     clip |-> c.clip, fillStyle |-> c.fillStyle]

ctxSave(c) == [c EXCEPT !.stack = Append(@, DrawingState(c))]

ctxRestore(c) ==
    IF c.stack = << >> THEN c
    ELSE LET top == c.stack[Len(c.stack)]
         IN  [c EXCEPT !.alpha = top.alpha, !.transform = top.transform,
                       !.filter = top.filter, !.clip = top.clip,
                       !.fillStyle = top.fillStyle,
                       !.stack = SubSeq(@, 1, Len(@) - 1)]

\* ctx.translate(x, y); a non-finite argument makes the call a no-op
ctxTranslate(c, x, y) ==
    IF x.d = 0 \/ y.d = 0 THEN c
    ELSE [c EXCEPT !.transform.cx = RatAdd(@, RatMul(c.transform.ax, x)),
                   !.transform.cy = RatAdd(@, RatMul(c.transform.ay, y))]

\* ctx.scale(sx, sy)
ctxScale(c, sx, sy) ==
    IF sx.d = 0 \/ sy.d = 0 THEN c
    ELSE [c EXCEPT !.transform.ax = RatMul(@, sx),
                   !.transform.ay = RatMul(@, sy)]

\* a layer drawn with alpha 1, no filter and no clip whose transformed
\* canvas rectangle contains the canvas hides what is under it (the images
\* are taken to be opaque)
CoversCanvas(layer) ==
    /\ layer.alpha = RatOfInt(1)
    /\ layer.filter = NoFilter
    /\ ~layer.clip.present
    /\ \/ layer.transform = Identity
       \/ /\ RatLeq(layer.transform.cx, RatOfInt(0))
          /\ RatLeq(layer.transform.cy, RatOfInt(0))
          /\ RatLeq(RatOfInt(Width),
                    RatAdd(RatMul(layer.transform.ax, RatOfInt(Width)),
                           layer.transform.cx))
          /\ RatLeq(RatOfInt(Height),
                    RatAdd(RatMul(layer.transform.ay, RatOfInt(Height)),
                           layer.transform.cy))

Composite(c, layer) ==
    IF CoversCanvas(layer) THEN [c EXCEPT !.pixels = << layer >>]
    ELSE [c EXCEPT !.pixels = Append(@, layer)]

\* ctx.drawImage(img, x, y, scaledW, scaledH) with the cover-fit rectangle
ctxDrawImage(c, img) ==
    Composite(c, [op |-> "image", image |-> img, colour |-> "",
                  alpha |-> c.alpha, transform |-> c.transform,
                  filter |-> c.filter, clip |-> c.clip])

\* ctx.fillRect(0, 0, width, height)
ctxFillRect(c) ==
    IF Opaque(c.fillStyle)
    THEN Composite(c, [op |-> "fill", image |-> 0, colour |-> c.fillStyle,
                       alpha |-> c.alpha, transform |-> c.transform,
                       filter |-> c.filter, clip |-> c.clip])
    ELSE [c EXCEPT !.pixels =
             Append(@, [op |-> "fill", image |-> 0, colour |-> c.fillStyle,
                        alpha |-> c.alpha, transform |-> c.transform,
                        filter |-> c.filter, clip |-> c.clip])]

\* ctx.clearRect(0, 0, width, height) under the identity transform
ctxClearRect(c) == [c EXCEPT !.pixels = << >>]

\* from / to of renderTransitionFrame may be null; the images are 1, 2, ..
NullImage == 0

\* drawImage(ctx, img, width, height, opacity) of the transition renderer:
\* if (!img) return
drawImage(c, img, opacity) ==
    IF img = NullImage THEN c
    ELSE ctxRestore(ctxDrawImage([ctxSave(c) EXCEPT !.alpha = opacity], img))

OneMinus(p) == RatSub(RatOfInt(1), p)

renderFade(c, from, to, progress) ==
    drawImage(drawImage(c, from, OneMinus(progress)), to, progress)

\* translate(w / 2, h / 2); scale(scale, scale); translate(-w / 2, -h / 2)
ScaleAboutCentre(c, scale) ==
    ctxTranslate(
        ctxScale(ctxTranslate(c, Rat(Width, 2), Rat(Height, 2)), scale, scale),
        Rat(-Width, 2), Rat(-Height, 2))

renderZoom(c, from, to, progress, direction) ==
    IF direction = "in"
    THEN LET c1 == drawImage(c, from, OneMinus(progress))
             c2 == [ctxSave(c1) EXCEPT !.alpha = progress]
         IN  ctxRestore(
                 drawImage(ScaleAboutCentre(c2, progress), to, RatOfInt(1)))
    ELSE LET c1 == drawImage(c, to, progress)
             c2 == [ctxSave(c1) EXCEPT !.alpha = OneMinus(progress)]
         IN  ctxRestore(
                 drawImage(ScaleAboutCentre(c2, RatAdd(RatOfInt(1), progress)),
                           from, RatOfInt(1)))

\* renderWipe, direction "left": rect(0, 0, w * progress, h); clip()
renderWipe(c, from, to, progress) ==
    LET c1 == drawImage(c, from, RatOfInt(1))
        c2 == [ctxSave(c1) EXCEPT
                  !.clip = [present |-> TRUE,
                            w |-> RatMul(RatOfInt(Width), progress)]]
    IN  ctxRestore(drawImage(c2, to, RatOfInt(1)))

\* const maxBlur = 20
maxBlur == 20

renderBlur(c, from, to, progress) ==
    LET firstHalf == RatLess(progress, Rat(1, 2))
        blurAmount ==
            IF firstHalf
            THEN RatMul(RatDiv(progress, Rat(1, 2)), RatOfInt(maxBlur))
            ELSE RatMul(RatDiv(OneMinus(progress), Rat(1, 2)),
                        RatOfInt(maxBlur))
        c1 == [ctxSave(c) EXCEPT !.filter = blurAmount]
        c2 == drawImage(c1, IF firstHalf THEN from ELSE to, RatOfInt(1))
    IN  ctxRestore([c2 EXCEPT !.filter = NoFilter])

\* mutant: a kind the switch does not know is cross-faded
renderTransitionFrameOn_DefaultFade(c, from, to, progress, type) ==
    LET c0 == ctxClearRect(c)
    IN  CASE type = "none" ->
                 drawImage(c0, IF RatLess(progress, Rat(1, 2))
                               THEN from ELSE to, RatOfInt(1))
          [] type = "fade" -> renderFade(c0, from, to, progress)
          [] type = "wipe-left" -> renderWipe(c0, from, to, progress)
          [] type = "zoom-in" -> renderZoom(c0, from, to, progress, "in")
          [] type = "zoom-out" -> renderZoom(c0, from, to, progress, "out")
          [] type = "blur" -> renderBlur(c0, from, to, progress)
          [] OTHER -> renderFade(c0, from, to, progress)

\* renderTransitionFrame on the canvas.  The cases are the kinds the
\* specifications use; OTHER is the default branch of the switch, taken by
\* a kind that is none of its sixteen cases
renderTransitionFrameOn(c, from, to, progress, type) ==
    LET c0 == ctxClearRect(c)
    IN  CASE type = "none" ->
                 drawImage(c0, IF RatLess(progress, Rat(1, 2))
                               THEN from ELSE to, RatOfInt(1))
          [] type = "fade" -> renderFade(c0, from, to, progress)
          [] type = "wipe-left" -> renderWipe(c0, from, to, progress)
          [] type = "zoom-in" -> renderZoom(c0, from, to, progress, "in")
          [] type = "zoom-out" -> renderZoom(c0, from, to, progress, "out")
          [] type = "blur" -> renderBlur(c0, from, to, progress)
          [] OTHER ->
                 drawImage(c0, IF RatLess(progress, Rat(1, 2))
                               THEN from ELSE to, RatOfInt(1))

\* the drawing of renderSlideWithKenBurns / drawImageCover for a display
\* call: without kenBurns the scale is 1 and the offset 0, and the image is
\* drawn under the unchanged transform
displayOn(c, call) ==
    IF call.scale = RatOfInt(1) /\ call.posX = RatOfInt(0)
       /\ call.posY = RatOfInt(0)
    THEN ctxDrawImage(c, call.image)
    ELSE LET c1 == IF call.scale = NaN THEN ctxSave(c)
                   ELSE ctxScale(
                            ctxTranslate(ctxSave(c),
                                RatAdd(Rat(Width, 2), call.posX),
                                RatAdd(Rat(Height, 2), call.posY)),
                            call.scale, call.scale)
             c2 == ctxTranslate(c1, Rat(-Width, 2), Rat(-Height, 2))
         IN  ctxRestore(ctxDrawImage(c2, call.image))

\* the drawing of renderFrame on the canvas c: the background fill, then
\* the render calls the time resolved to
drawCalls(c, calls, backgroundColor) ==
    LET c1 == ctxFillRect([c EXCEPT !.fillStyle = backgroundColor])
    IN  IF calls = << >> THEN c1
        ELSE IF calls[1].kind = "display" THEN displayOn(c1, calls[1])
        ELSE renderTransitionFrameOn(c1, calls[1].from, calls[1].to,
                                     calls[1].progress, calls[1].type)

\* renderFrame(time, timeline) on the canvas c
renderFrameOn(c, time, timeline, backgroundColor) ==
    drawCalls(c, renderFrame(time, timeline), backgroundColor)

\* ------------------------------------------------------------------ state
VARIABLES
    request,      \* the ImageToVideoRequest: [slides, fps, backgroundColor]
    loop,         \* what createRenderLoop returned to a direct caller
    frameIndex,   \* the index of the last call of loop.renderFrame, -1: none
    instr,        \* the render calls that call made
    canvas,       \* the service's canvas and its 2D context
    easingCall,   \* the last direct call of applyEasing and its result
    kenBurnsCall, \* the last direct call of renderSlideWithKenBurns
    effectCall,   \* the last direct call of renderTransitionFrame
    doubleLoop,   \* a render loop and its last frame, with times as doubles
    apiResponse,  \* the response of POST /api/image-to-video to request
    driver,       \* the component running the jobs: "hook", "page", "none"
    jobs,         \* the invocations of generate / handleRender
    cancelRef,    \* cancelRef.current of the component
    isProcessing, \* the hook's isProcessing state
    isRendering   \* the page's isRendering state

serviceVars == << loop, frameIndex, instr, canvas >>
driverVars == << driver, jobs, cancelRef, isProcessing, isRendering >>
directVars ==
    << easingCall, kenBurnsCall, effectCall, doubleLoop, apiResponse >>
vars == << request, loop, frameIndex, instr, canvas, easingCall, kenBurnsCall,
           effectCall, doubleLoop, apiResponse, driver, jobs, cancelRef, isProcessing, isRendering >>

NoEasingCall ==
    [made |-> FALSE, t |-> RatOfInt(0), easing |-> "linear",
     result |-> RatOfInt(0)]

NoKenBurnsCall ==
    [made |-> FALSE, entry |-> << >>, time |-> RatOfInt(0), result |-> << >>]

NoEffectCall ==
    [made |-> FALSE, from |-> NullImage, to |-> NullImage,
     progress |-> RatOfInt(0), type |-> "none"]

NoDoubleLoop ==
    [created |-> FALSE, fps |-> 1, totalDuration |-> Zero, totalFrames |-> 0,
     frameIndex |-> -1, time |-> Zero, shown |-> "nothing"]

NoResponse == [status |-> 0]

NoLoop ==
    [created |-> FALSE, timeline |-> << >>, totalDuration |-> 0,
     totalFrames |-> 0]

\* createRenderLoop with every image loaded
createRenderLoop(req) ==
    LET built == buildTimeline(req.slides)
    IN  [created |-> TRUE, timeline |-> built.timeline,
         totalDuration |-> built.totalDuration,
         totalFrames |-> TotalFrames(built.totalDuration, req.fps)]

\* the requests a caller hands to the service, at the lowest and the highest
\* frame rate: both callers refuse an empty slide list before they construct
\* it (zod min(1); slides.length === 0)
ServiceRequests ==
    [slides : SeqsUpTo(ImageSlides, MaxSlides) \ {<< >>}, fps : {1, MaxFps},
     backgroundColor : {"#000000"}]

\* the invocations the model follows: the running one and a second one
Jobs == {1, 2}

NoOutcome == [returned |-> FALSE, thrown |-> FALSE]

\* a job before its invocation; canvasCreated (its service made a canvas),
\* events (the per-frame progress events it emitted, each with the number
\* of frames rendered when it was emitted), failure (the kind of failure
\* that ended it) and cancelAt (the number of frames rendered when cancel
\* was first requested in its frame loop, -1: never) record its history
IdleJob ==
    [pc |-> "idle", canvasCreated |-> FALSE, images |-> 0, loop |-> NoLoop,
     frame |-> 0,
     rendered |-> << >>, encoded |-> << >>, surface |-> << >>,
     events |-> << >>,
     outcome |-> NoOutcome, failure |-> "none", cancelAt |-> -1]

InitService ==
    /\ request \in ServiceRequests
    /\ loop = NoLoop
    /\ frameIndex = -1
    /\ instr = << >>
    /\ canvas = BlankCanvas
    /\ easingCall = NoEasingCall
    /\ kenBurnsCall = NoKenBurnsCall
    /\ effectCall = NoEffectCall
    /\ doubleLoop = NoDoubleLoop
    /\ apiResponse = NoResponse
    /\ driver = "none"
    /\ jobs = [j \in Jobs |-> IdleJob]
    /\ cancelRef = FALSE
    /\ isProcessing = FALSE
    /\ isRendering = FALSE

CreateRenderLoop ==
    /\ ~loop.created
    /\ loop' = createRenderLoop(request)
    /\ UNCHANGED << request, directVars, frameIndex, instr, canvas >>
    /\ UNCHANGED driverVars

\* the closure renderFrame(frameIndex) of the render loop; index
\* totalFrames is the call one past the last frame
CallRenderFrame(k) ==
    /\ loop.created
    /\ Len(canvas.pixels) <= MaxLayers
    /\ frameIndex' = k
    /\ instr' = renderFrame(FrameTime(k, request.fps), loop.timeline)
    /\ canvas' = drawCalls(canvas, instr', request.backgroundColor)
    /\ UNCHANGED << request, directVars, loop >>
    /\ UNCHANGED driverVars

NextService ==
    \/ CreateRenderLoop
    \/ \E k \in 0..loop.totalFrames : CallRenderFrame(k)

SpecService == InitService /\ [][NextService]_vars

\* the arguments applyEasing is called with directly: below 0, the
\* multiples of 1 / (2 * EasingSteps) in [0, 1], above 1
EasingInputs ==
    {Rat(n, 2 * EasingSteps) : n \in -2..(2 * EasingSteps + 2)}

\* before any request: only the pure functions are called
InitEasing ==
    /\ request = [slides |-> << >>, fps |-> 1, backgroundColor |-> "#000000"]
    /\ loop = NoLoop
    /\ frameIndex = -1
    /\ instr = << >>
    /\ canvas = BlankCanvas
    /\ easingCall = NoEasingCall
    /\ kenBurnsCall = NoKenBurnsCall
    /\ effectCall = NoEffectCall
    /\ doubleLoop = NoDoubleLoop
    /\ apiResponse = NoResponse
    /\ driver = "none"
    /\ jobs = [j \in Jobs |-> IdleJob]
    /\ cancelRef = FALSE
    /\ isProcessing = FALSE
    /\ isRendering = FALSE

ApplyEasing(t, easing) ==
    /\ easingCall' = [made |-> TRUE, t |-> t, easing |-> easing,
                      result |-> applyEasing(t, easing)]
    /\ UNCHANGED << request, kenBurnsCall, effectCall, doubleLoop, apiResponse,
                    serviceVars, driverVars >>

NextEasing ==
    \E t \in EasingInputs, easing \in EasingTypes : ApplyEasing(t, easing)

SpecEasing == InitEasing /\ [][NextEasing]_vars

\* the timeline entries renderSlideWithKenBurns is called with directly: a
\* slide of every duration, with and without kenBurns, starting at 0 or 1 s
KenBurnsEntries ==
    {[slide |-> [duration |-> d, transition |-> NoTransition,
                 kenBurns |-> kb],
      image |-> 1, startTime |-> s, endTime |-> s + d,
      transitionOut |-> NoTransition] :
         d \in Durations, kb \in {NoKenBurns} \cup KenBurnsSpecs,
         s \in {0, TicksPerSec}}

\* the times of the direct calls: before the entry, within it, past its end
KenBurnsTimes ==
    {Rat(n, 2) : n \in -2..(2 * (TicksPerSec + 2) + 2)}

ApplyKenBurns(entry, time) ==
    /\ kenBurnsCall' = [made |-> TRUE, entry |-> entry, time |-> time,
                        result |-> renderSlideWithKenBurns(entry, time)]
    /\ UNCHANGED << request, easingCall, effectCall, doubleLoop, apiResponse,
                    serviceVars, driverVars >>

NextKenBurns ==
    \E entry \in KenBurnsEntries, time \in KenBurnsTimes :
        ApplyKenBurns(entry, time)

SpecKenBurns == InitEasing /\ [][NextKenBurns]_vars

\* the kinds renderTransitionFrame is called with directly: those the canvas
\* model draws, and "sparkle", which is none of the cases of its switch
EffectTypes ==
    {"none", "fade", "wipe-left", "zoom-in", "zoom-out", "blur", "sparkle"}

\* from and to: null or one of two images
EffectImages == {NullImage, 1, 2}

\* progress in quarters, from 0 to 1
EffectProgress == {Rat(n, 4) : n \in 0..4}

\* renderTransitionFrame(ctx, from, to, progress, type, width, height) on
\* the canvas as the previous call left it
ApplyEffect(from, to, progress, type) ==
    /\ effectCall' = [made |-> TRUE, from |-> from, to |-> to,
                      progress |-> progress, type |-> type]
    /\ canvas' = renderTransitionFrameOn(canvas, from, to, progress, type)
    /\ UNCHANGED << request, easingCall, kenBurnsCall, doubleLoop,
                    apiResponse, loop, frameIndex, instr, driverVars >>

NextEffect ==
    \E from \in EffectImages, to \in EffectImages,
       progress \in EffectProgress, type \in EffectTypes :
        ApplyEffect(from, to, progress, type)

SpecEffect == InitEasing /\ [][NextEffect]_vars

\* slide durations written as decimals, in tenths of a second (0.5 s, 1 s,
\* 1.1 s, 2.2 s), and frame rates; the request schema admits durations from
\* 0.1 to 60 s and integer rates from 1 to 60
DecimalDurations == {5, 10, 11, 22}
DoubleFps == {25, 50}

\* createRenderLoop for one slide without a transition, computed in doubles:
\* buildTimeline gives the entry startTime 0 and endTime 0 + duration, which
\* is also totalDuration; totalFrames = Math.ceil(totalDuration * fps)
CreateRenderLoopInDoubles(tenths, fps) ==
    /\ ~doubleLoop.created
    /\ doubleLoop' =
           LET duration == DoubleOfQuotient(tenths, 10)
           IN  [created |-> TRUE, fps |-> fps, totalDuration |-> duration,
                totalFrames |-> DoubleCeil(DoubleTimes(duration, fps)),
                frameIndex |-> -1, time |-> Zero, shown |-> "nothing"]
    /\ UNCHANGED << request, easingCall, kenBurnsCall, effectCall,
                    apiResponse, serviceVars, driverVars >>

\* the next iteration of for (let i = 0; i < totalFrames; i++)
\* renderFrame(i): time = frameIndex / fps; renderFrame draws the entry
\* when time >= startTime && time < endTime and the last slide otherwise
RenderFrameInDoubles ==
    /\ doubleLoop.created
    /\ doubleLoop.frameIndex + 1 < doubleLoop.totalFrames
    /\ doubleLoop' =
           LET i == doubleLoop.frameIndex + 1
               time == DoubleOfQuotient(i, doubleLoop.fps)
           IN  [doubleLoop EXCEPT
                   !.frameIndex = i,
                   !.time = time,
                   !.shown = IF DoubleLess(time, doubleLoop.totalDuration)
                             THEN "display" ELSE "fallback"]
    /\ UNCHANGED << request, easingCall, kenBurnsCall, effectCall,
                    apiResponse, serviceVars, driverVars >>

NextDoubles ==
    \/ \E tenths \in DecimalDurations, fps \in DoubleFps :
           CreateRenderLoopInDoubles(tenths, fps)
    \/ RenderFrameInDoubles

SpecDoubles == InitEasing /\ [][NextDoubles]_vars

\* a pan that uncovers a strip of the canvas: offset (0,0) -> (32,0)
PanRight ==
    [present |-> TRUE, startScale |-> 1, endScale |-> 1,
     startPosition |-> [x |-> 0, y |-> 0],
     endPosition |-> [x |-> 32, y |-> 0]]

Effect(type) ==
    [present |-> TRUE, type |-> type, duration |-> 2, easing |-> "linear"]

\* the slides of the canvas specification: every effect kind the canvas
\* model draws, a plain slide and a panned one
CanvasSlides ==
    {[duration |-> 1, transition |-> NoTransition, kenBurns |-> NoKenBurns],
     [duration |-> 2, transition |-> NoTransition, kenBurns |-> PanRight]}
    \cup {[duration |-> 1, transition |-> Effect(type),
           kenBurns |-> NoKenBurns] :
              type \in {"none", "fade", "wipe-left", "zoom-in", "zoom-out",
                        "blur"}}

CanvasRequests ==
    [slides : SeqsUpTo(CanvasSlides, 2) \ {<< >>}, fps : {2, 3},
     backgroundColor : BackgroundColors]

InitCanvas ==
    /\ request \in CanvasRequests
    /\ loop = NoLoop
    /\ frameIndex = -1
    /\ instr = << >>
    /\ canvas = BlankCanvas
    /\ easingCall = NoEasingCall
    /\ kenBurnsCall = NoKenBurnsCall
    /\ effectCall = NoEffectCall
    /\ doubleLoop = NoDoubleLoop
    /\ apiResponse = NoResponse
    /\ driver = "none"
    /\ jobs = [j \in Jobs |-> IdleJob]
    /\ cancelRef = FALSE
    /\ isProcessing = FALSE
    /\ isRendering = FALSE

SpecCanvas == InitCanvas /\ [][NextService]_vars

\* ------------------------------------------------------------ render jobs
Err(message) == [message |-> message, src |-> 0]
NoError == Err("")

\* the value an invocation returns
Returned(success, error) ==
    [returned |-> TRUE, thrown |-> FALSE, success |-> success, error |-> error]

\* an exception that leaves the invocation
Thrown(error) == [returned |-> FALSE, thrown |-> TRUE, error |-> error]

\* mutant: the catch block rethrows
CatchBlock_Rethrow(error) == Thrown(error)

\* the catch block of generate: the error becomes a failure result
CatchBlock(error) == Returned(FALSE, error)

\* the finally blocks: the flag after a step that left job in state job
FinallyBlock(job, flag) == IF job.pc = "done" THEN FALSE ELSE flag

Finish(job, outcome, failure) ==
    [job EXCEPT !.pc = "done", !.outcome = outcome, !.failure = failure]

Running(job) == job.pc \notin {"idle", "done"}

\* the job has its render loop and has not ended
InFrameLoop(job) == Running(job) /\ job.loop.created

\* mutant: no lower limit on the slide duration
ValidRequest_NoMinDuration(req) ==
    /\ Len(req.slides) >= 1
    /\ Len(req.slides) <= 100
    /\ \A i \in 1..Len(req.slides) :
          LET slide == req.slides[i]
          IN  /\ slide.duration <= 60 * TicksPerSec
              /\ slide.transition.present =>
                    /\ 10 * slide.transition.duration >= TicksPerSec
                    /\ slide.transition.duration <= 5 * TicksPerSec
    /\ req.fps >= 1
    /\ req.fps <= 60

\* imageToVideoRequestSchema.safeParse, durations in ticks
ValidRequest(req) ==
    /\ Len(req.slides) >= 1
    /\ Len(req.slides) <= 100
    /\ \A i \in 1..Len(req.slides) :
          LET slide == req.slides[i]
          IN  /\ 10 * slide.duration >= TicksPerSec
              /\ slide.duration <= 60 * TicksPerSec
              /\ slide.transition.present =>
                    /\ 10 * slide.transition.duration >= TicksPerSec
                    /\ slide.transition.duration <= 5 * TicksPerSec
    /\ req.fps >= 1
    /\ req.fps <= 60

\* the slides the page makes of its SlideItems
slideConfigs(slides) ==
    [i \in 1..Len(slides) |->
        [duration |-> slides[i].duration,
         transition |->
             IF i # Len(slides) /\ slides[i].transition.present
                /\ slides[i].transition.type # "none"
             THEN slides[i].transition
             ELSE NoTransition,
         kenBurns |-> NoKenBurns]]

\* the request a job hands to the service
ServiceRequest ==
    IF driver = "page"
    THEN [slides |-> slideConfigs(request.slides), fps |-> request.fps,
          backgroundColor |-> "#000000"]
    ELSE request

\* renderLoop.renderFrame(f) on the job's canvas
RenderOn(job, f) ==
    [job EXCEPT !.frame = f,
                !.rendered = Append(@, f),
                !.surface = renderFrame(FrameTime(f, request.fps),
                                        job.loop.timeline)]

\* setProgress({phase: "rendering", currentFrame, ...})
ProgressEvent(job, currentFrame) ==
    [job EXCEPT !.events = Append(@, [currentFrame |-> currentFrame,
                                      rendered |-> Len(job.rendered)])]

\* mutant: the loop condition is frame <= totalFrames
HookLoopHead_OffByOne(job, f, cancelled) ==
    IF f <= job.loop.totalFrames
    THEN IF cancelled
         THEN Finish(job, Returned(FALSE, Err("Cancelled")), job.failure)
         ELSE [RenderOn(job, f) EXCEPT !.pc = "addFrame"]
    ELSE [job EXCEPT !.pc = "finalize", !.frame = f]

\* the head of the hook's frame loop at index f: the cancellation check,
\* then renderFrame(f) up to the await of addFrame
HookLoopHead(job, f, cancelled) ==
    IF f < job.loop.totalFrames
    THEN IF cancelled
         THEN Finish(job, Returned(FALSE, Err("Cancelled")), job.failure)
         ELSE [RenderOn(job, f) EXCEPT !.pc = "addFrame"]
    ELSE [job EXCEPT !.pc = "finalize", !.frame = f]

\* the head of renderWithMediaRecorder's loop at index i: onProgress (which
\* throws Cancelled), renderFrame(i), the copy to the recording canvas, up
\* to the await of sleep
PageLoopHead(job, i, cancelled) ==
    IF i < job.loop.totalFrames
    THEN IF cancelled
         THEN Finish(job, CatchBlock(Err("Cancelled")), job.failure)
         ELSE [RenderOn(ProgressEvent(job, i + 1), i) EXCEPT
                  !.pc = "sleep", !.encoded = Append(@, i)]
    ELSE [job EXCEPT !.pc = "recorderStop", !.frame = i]

JobSlides ==
    {[duration |-> 0, transition |-> NoTransition, kenBurns |-> NoKenBurns],
     [duration |-> 1, transition |-> NoTransition, kenBurns |-> NoKenBurns],
     [duration |-> 2,
      transition |-> [present |-> TRUE, type |-> "fade", duration |-> 1,
                      easing |-> "ease-in"],
      kenBurns |-> NoKenBurns]}

JobRequests ==
    [slides : SeqsUpTo(JobSlides, 2), fps : {2}, backgroundColor : {"#000000"}]

Init ==
    /\ request \in JobRequests
    /\ loop = NoLoop
    /\ frameIndex = -1
    /\ instr = << >>
    /\ canvas = BlankCanvas
    /\ easingCall = NoEasingCall
    /\ kenBurnsCall = NoKenBurnsCall
    /\ effectCall = NoEffectCall
    /\ doubleLoop = NoDoubleLoop
    /\ apiResponse = NoResponse
    /\ driver \in {"hook", "page"}
    /\ jobs = [j \in Jobs |-> IdleJob]
    /\ cancelRef = FALSE
    /\ isProcessing = FALSE
    /\ isRendering = FALSE

HookStep(j, job) ==
    /\ jobs' = [jobs EXCEPT ![j] = job]
    /\ isProcessing' = FinallyBlock(job, isProcessing)
    /\ UNCHANGED << request, directVars, serviceVars, driver, cancelRef,
                    isRendering >>

PageStep(j, job) ==
    /\ jobs' = [jobs EXCEPT ![j] = job]
    /\ isRendering' = FinallyBlock(job, isRendering)
    /\ UNCHANGED << request, directVars, serviceVars, driver, cancelRef,
                    isProcessing >>

\* generate(request) up to the await of fetch
Generate(j) ==
    /\ driver = "hook"
    /\ jobs[j].pc = "idle"
    /\ jobs' = [jobs EXCEPT ![j].pc = "validate"]
    /\ isProcessing' = TRUE
    /\ cancelRef' = FALSE
    /\ UNCHANGED << request, directVars, serviceVars, driver, isRendering >>

\* new ImageToVideoService(request), then createRenderLoop up to the await
\* of the first loadImage
StartService(job, ctxOk) ==
    IF ctxOk
    THEN [job EXCEPT !.pc = "loading", !.canvasCreated = TRUE, !.images = 0]
    ELSE Finish([job EXCEPT !.canvasCreated = TRUE],
                CatchBlock(Err("Failed to create canvas 2D context")),
                "surface")

\* the answer of POST /api/image-to-video arrives (or fetch rejects)
ApiAnswered(j) ==
    /\ driver = "hook"
    /\ jobs[j].pc = "validate"
    /\ \E answer \in {"rejects", "429", "500", "handled"}, ctxOk \in BOOLEAN :
          HookStep(j,
              CASE answer = "rejects" ->
                     Finish(jobs[j], CatchBlock(Err("Failed to fetch")),
                            "network")
                [] answer = "429" ->
                     Finish(jobs[j], Returned(FALSE, Err("Too many requests")),
                            "rateLimit")
                [] answer = "500" ->
                     Finish(jobs[j],
                            Returned(FALSE, Err("Internal server error")),
                            "server")
                [] OTHER ->
                     IF ValidRequest(request)
                     THEN StartService(jobs[j], ctxOk)
                     ELSE Finish(jobs[j],
                                 Returned(FALSE, Err("Invalid request")),
                                 "validation"))

\* how loadImage(src) settles: the bitmap; response.ok false; fetch
\* rejects; response.blob() or createImageBitmap rejects
LoadResults == {"ok", "status", "fetchRejects", "decodeFails"}

\* the error loadImage(src) rejects with: its own Error names src, a
\* rejection of fetch or createImageBitmap passes through as it is
loadImageError(src, res) ==
    CASE res = "status" -> [message |-> "Failed to load image", src |-> src]
      [] res = "fetchRejects" -> Err("Failed to fetch")
      [] OTHER -> Err("The source image could not be decoded")

\* loadImage of slide images + 1 settles
LoadSettled(job, res) ==
    IF res = "ok"
    THEN IF job.images + 1 = Len(request.slides)
         THEN [job EXCEPT !.images = @ + 1,
                          !.loop = createRenderLoop(ServiceRequest)]
         ELSE [job EXCEPT !.images = @ + 1]
    ELSE Finish(job, CatchBlock(loadImageError(job.images + 1, res)),
                "imageLoad")

\* the hook: an image settles; after the last one the timeline is built and
\* generate awaits the import of mediabunny
ImageLoaded(j) ==
    /\ driver = "hook"
    /\ jobs[j].pc = "loading"
    /\ \E res \in LoadResults :
          LET job == LoadSettled(jobs[j], res)
          IN  HookStep(j, IF job.loop.created
                          THEN [job EXCEPT !.pc = "encoderSetup"]
                          ELSE job)

\* mediabunny is imported, Output and CanvasSource are made, and the frame
\* loop runs up to its first await
EncoderReady(j) ==
    /\ driver = "hook"
    /\ jobs[j].pc = "encoderSetup"
    /\ \E ok \in BOOLEAN :
          HookStep(j, IF ok
                      THEN HookLoopHead(jobs[j], 0, cancelRef)
                      ELSE Finish(jobs[j], CatchBlock(Err("encoder error")),
                                  "encoder"))

\* canvasSource.addFrame() settles, progress is reported, and the loop
\* runs up to its next await
FrameAdded(j) ==
    /\ driver = "hook"
    /\ jobs[j].pc = "addFrame"
    /\ \E ok \in BOOLEAN :
          HookStep(j, IF ok
                      THEN HookLoopHead(
                               ProgressEvent(
                                   [jobs[j] EXCEPT
                                       !.encoded = Append(@, jobs[j].frame)],
                                   jobs[j].frame + 1),
                               jobs[j].frame + 1, cancelRef)
                      ELSE Finish(jobs[j], CatchBlock(Err("encoder error")),
                                  "encoder"))

\* output.finalize() settles
Finalized(j) ==
    /\ driver = "hook"
    /\ jobs[j].pc = "finalize"
    /\ \E ok \in BOOLEAN :
          HookStep(j, IF ok
                      THEN Finish(jobs[j], Returned(TRUE, NoError),
                                  jobs[j].failure)
                      ELSE Finish(jobs[j], CatchBlock(Err("encoder error")),
                                  "encoder"))

\* cancel() of the hook, handleCancel of the page (its button is shown
\* while isRendering)
Cancel ==
    /\ driver = "hook" \/ (driver = "page" /\ isRendering)
    /\ cancelRef' = TRUE
    /\ jobs' = [j \in Jobs |->
                   IF InFrameLoop(jobs[j]) /\ jobs[j].cancelAt = -1
                   THEN [jobs[j] EXCEPT !.cancelAt = Len(jobs[j].rendered)]
                   ELSE jobs[j]]
    /\ UNCHANGED << request, directVars, serviceVars, driver, isProcessing,
                    isRendering >>

\* handleRender up to the await of the data URIs; its button is shown
\* while not isRendering
HandleRender(j) ==
    /\ driver = "page"
    /\ jobs[j].pc = "idle"
    /\ ~isRendering
    /\ IF Len(request.slides) = 0
       THEN /\ jobs' = [jobs EXCEPT
                           ![j] = Finish(@, Returned(FALSE, Err("no slides")),
                                         "validation")]
            /\ UNCHANGED << isRendering, cancelRef >>
       ELSE /\ jobs' = [jobs EXCEPT ![j].pc = "dataUris"]
            /\ isRendering' = TRUE
            /\ cancelRef' = FALSE
    /\ UNCHANGED << request, directVars, serviceVars, driver, isProcessing >>

\* Promise.all(fileToDataUri) settles; the service is constructed
DataUrisRead(j) ==
    /\ driver = "page"
    /\ jobs[j].pc = "dataUris"
    /\ \E ok \in BOOLEAN, ctxOk \in BOOLEAN :
          PageStep(j, IF ok
                      THEN StartService(jobs[j], ctxOk)
                      ELSE Finish(jobs[j], CatchBlock(Err("read error")),
                                  "fileRead"))

\* the page: an image settles; after the last one the timeline is built,
\* the MediaRecorder is made and the frame loop runs up to its first await
PageImageLoaded(j) ==
    /\ driver = "page"
    /\ jobs[j].pc = "loading"
    /\ \E res \in LoadResults, recorderOk \in BOOLEAN :
          LET job == LoadSettled(jobs[j], res)
          IN  PageStep(j,
                  IF ~job.loop.created THEN job
                  ELSE IF recorderOk THEN PageLoopHead(job, 0, cancelRef)
                  ELSE Finish(job, CatchBlock(Err("encoder error")),
                              "encoder"))

\* sleep(frameDuration) is over, and the loop runs up to its next await
SleepDone(j) ==
    /\ driver = "page"
    /\ jobs[j].pc = "sleep"
    /\ PageStep(j, PageLoopHead(jobs[j], jobs[j].frame + 1, cancelRef))

\* mediaRecorder.onstop: the blob is there
RecorderStopped(j) ==
    /\ driver = "page"
    /\ jobs[j].pc = "recorderStop"
    /\ PageStep(j, Finish(jobs[j], Returned(TRUE, NoError), jobs[j].failure))

Next ==
    \/ \E j \in Jobs : Generate(j)
    \/ \E j \in Jobs : ApiAnswered(j)
    \/ \E j \in Jobs : ImageLoaded(j)
    \/ \E j \in Jobs : EncoderReady(j)
    \/ \E j \in Jobs : FrameAdded(j)
    \/ \E j \in Jobs : Finalized(j)
    \/ Cancel
    \/ \E j \in Jobs : HandleRender(j)
    \/ \E j \in Jobs : DataUrisRead(j)
    \/ \E j \in Jobs : PageImageLoaded(j)
    \/ \E j \in Jobs : SleepDone(j)
    \/ \E j \in Jobs : RecorderStopped(j)

Spec == Init /\ [][Next]_vars

\* ------------------------------------------------------- the API route
\* one iteration of the for loop of POST: the timeline entry of slide i
\* given the cursor currentTime
ApiTimelineEntry(slides, i, currentTime) ==
    LET slide == slides[i]
        startTime == currentTime
        endTime == startTime + slide.duration
    IN  [duration |-> slide.duration, startTime |-> startTime,
         endTime |-> endTime, kenBurns |-> slide.kenBurns,
         transition |->
             IF i < Len(slides) /\ slide.transition.present
                /\ slide.transition.type # "none"
             THEN [present |-> TRUE,
                   type |-> slide.transition.type,
                   duration |-> slide.transition.duration,
                   easing |-> slide.transition.easing,
                   startTime |-> endTime,
                   endTime |-> endTime + slide.transition.duration]
             ELSE NoTransition]

\* the timeline and the final cursor of the loop from slide i on
RECURSIVE ApiTimelineFrom(_, _, _)
ApiTimelineFrom(slides, i, currentTime) ==
    IF i > Len(slides)
    THEN [timeline |-> << >>, totalDuration |-> currentTime]
    ELSE LET entry == ApiTimelineEntry(slides, i, currentTime)
             next == IF entry.transition.present
                     THEN entry.transition.endTime
                     ELSE entry.endTime
             rest == ApiTimelineFrom(slides, i + 1, next)
         IN  [timeline |-> << entry >> \o rest.timeline,
              totalDuration |-> rest.totalDuration]

\* config.slides.filter((s) => s.transition && s.transition.type !==
\* "none").length
transitionCount(slides) ==
    Cardinality({i \in 1..Len(slides) :
                    /\ slides[i].transition.present
                    /\ slides[i].transition.type # "none"})

\* the response of POST to the body, given the answer of the rate limiter
\* and whether the body is JSON
POST(body, limited, isJson) ==
    IF limited THEN [status |-> 429, error |-> "Too many requests"]
    ELSE IF ~isJson
    THEN [status |-> 400, error |-> "Invalid JSON in request body"]
    ELSE IF ~ValidRequest(body)
    THEN [status |-> 400, error |-> "Invalid request"]
    ELSE LET built == ApiTimelineFrom(body.slides, 1, 0)
         IN  [status |-> 200, success |-> TRUE,
              timeline |-> built.timeline,
              metadata |->
                  [totalDuration |-> built.totalDuration,
                   totalFrames |-> TotalFrames(built.totalDuration, body.fps),
                   slideCount |-> Len(body.slides),
                   transitionCount |-> transitionCount(body.slides)]]

\* the bodies sent to the route: every slide list of the service and the
\* empty one
ApiBodies ==
    [slides : SeqsUpTo(ImageSlides, MaxSlides), fps : {1, MaxFps},
     backgroundColor : {"#000000"}]

InitApi ==
    /\ request \in ApiBodies
    /\ loop = NoLoop
    /\ frameIndex = -1
    /\ instr = << >>
    /\ canvas = BlankCanvas
    /\ easingCall = NoEasingCall
    /\ kenBurnsCall = NoKenBurnsCall
    /\ effectCall = NoEffectCall
    /\ doubleLoop = NoDoubleLoop
    /\ apiResponse = NoResponse
    /\ driver = "none"
    /\ jobs = [j \in Jobs |-> IdleJob]
    /\ cancelRef = FALSE
    /\ isProcessing = FALSE
    /\ isRendering = FALSE

Post(limited, isJson) ==
    /\ apiResponse = NoResponse
    /\ apiResponse' = POST(request, limited, isJson)
    /\ UNCHANGED << request, easingCall, kenBurnsCall, effectCall, doubleLoop,
                    serviceVars, driverVars >>

NextApi == \E limited \in BOOLEAN, isJson \in BOOLEAN : Post(limited, isJson)

SpecApi == InitApi /\ [][NextApi]_vars

\* ------------------------------------------------------------ claims C1-C7
Time == FrameTime(frameIndex, request.fps)
Called == loop.created /\ frameIndex >= 0
LastOf(seq) == seq[Len(seq)]

\* the intervals of a timeline in order: display, then transition if any
RECURSIVE IntervalsFrom(_, _)
IntervalsFrom(timeline, i) ==
    IF i > Len(timeline) THEN << >>
    ELSE LET e == timeline[i]
             own == IF e.transitionOut.present
                    THEN << << e.startTime, e.endTime >>,
                            << e.transitionOut.startTime,
                               e.transitionOut.endTime >> >>
                    ELSE << << e.startTime, e.endTime >> >>
         IN  own \o IntervalsFrom(timeline, i + 1)

Intervals(timeline) == IntervalsFrom(timeline, 1)

ValidDurations(slides) ==
    \A i \in 1..Len(slides) :
        /\ slides[i].duration > 0
        /\ slides[i].transition.present => slides[i].transition.duration > 0

\* C1: for a slide list with positive slide and transition durations the
\* built timeline partitions [0, totalDuration): entry 0 starts at 0, a
\* transition interval starts at its entry's display end, the next entry
\* starts where the previous entry's last interval ends, the last interval
\* ends at totalDuration, and the intervals are non-empty and increasing.
C1_Partition ==
    (loop.created /\ ValidDurations(request.slides)) =>
        LET tl == loop.timeline
            iv == Intervals(tl)
        IN  /\ Len(tl) = Len(request.slides)
            /\ tl[1].startTime = 0
            /\ \A i \in 1..Len(tl) :
                   /\ tl[i].transitionOut.present =>
                          tl[i].transitionOut.startTime = tl[i].endTime
                   /\ i < Len(tl) =>
                          tl[i + 1].startTime =
                              IF tl[i].transitionOut.present
                              THEN tl[i].transitionOut.endTime
                              ELSE tl[i].endTime
            /\ iv[1][1] = 0
            /\ LastOf(iv)[2] = loop.totalDuration
            /\ \A j \in 1..Len(iv) : iv[j][1] < iv[j][2]
            /\ \A j \in 1..(Len(iv) - 1) : iv[j][2] = iv[j + 1][1]
            /\ \A j, k \in 1..Len(iv) : j < k => iv[j][2] <= iv[k][1]

C1_Witness ==
    /\ loop.created /\ ValidDurations(request.slides)
    /\ Len(loop.timeline) >= 2
    /\ loop.timeline[1].transitionOut.present
    /\ Len(Intervals(loop.timeline)) >= 3

\* C2: a call of renderFrame with a time in [0, totalDuration] makes exactly
\* one render call, a steady display or a transition.
C2_ResolverTotal ==
    (Called /\ RatLeq(Time, RatOfInt(loop.totalDuration))) =>
        /\ Len(instr) = 1
        /\ instr[1].kind \in {"display", "transition"}

C2_Witness ==
    /\ Called /\ ValidDurations(request.slides)
    /\ Time = RatOfInt(loop.totalDuration)
    /\ loop.totalDuration > 0
    /\ Len(instr) = 1

\* the sum the claim states: every slide duration, plus the transition
\* duration of every non-last slide whose transition kind is not none
RECURSIVE SumDurations(_, _)
SumDurations(slides, i) ==
    IF i > Len(slides) THEN 0
    ELSE slides[i].duration
         + (IF i < Len(slides) /\ slides[i].transition.present
               /\ slides[i].transition.type # "none"
            THEN slides[i].transition.duration ELSE 0)
         + SumDurations(slides, i + 1)

\* three 3 s slides, 1 s fades on the first two
Fade1s ==
    [present |-> TRUE, type |-> "fade", duration |-> 1 * TicksPerSec,
     easing |-> "ease-in-out"]

ExampleSlides ==
    << [duration |-> 3 * TicksPerSec, transition |-> Fade1s,
        kenBurns |-> NoKenBurns],
       [duration |-> 3 * TicksPerSec, transition |-> Fade1s,
        kenBurns |-> NoKenBurns],
       [duration |-> 3 * TicksPerSec, transition |-> NoTransition,
        kenBurns |-> NoKenBurns] >>

ExampleLoop == createRenderLoop([slides |-> ExampleSlides, fps |-> 30])

\* C3: totalDuration is the sum of the slide durations and of the
\* transition durations of the non-last slides with a kind other than none;
\* totalFrames = ceil(totalDuration * fps); the example gives 11 s, 330.
C3_TotalDuration ==
    /\ loop.created =>
          /\ loop.totalDuration = SumDurations(request.slides, 1)
          /\ loop.totalFrames * TicksPerSec >= loop.totalDuration * request.fps
          /\ (loop.totalFrames - 1) * TicksPerSec
                 < loop.totalDuration * request.fps
    /\ ExampleLoop.totalDuration = 11 * TicksPerSec
    /\ ExampleLoop.totalFrames = 330

C3_Witness ==
    /\ loop.created /\ ValidDurations(request.slides)
    /\ Len(request.slides) >= 2
    /\ request.slides[1].transition.present
    /\ request.slides[1].transition.type # "none"
    /\ loop.totalDuration * request.fps % TicksPerSec # 0

\* the slide list with the last slide's transition replaced by tr
WithLastTransition(slides, tr) ==
    [slides EXCEPT ![Len(slides)].transition = tr]

\* C4: the last slide's transition is ignored: whatever transition is
\* configured on the last slide, the timeline has the same totalDuration,
\* totalFrames and intervals as with none, and its last entry carries no
\* transition interval.
C4_LastTransitionIgnored ==
    loop.created =>
        /\ ~LastOf(loop.timeline).transitionOut.present
        /\ \A tr \in {NoTransition} \cup TransitionConfigs :
               LET other ==
                       createRenderLoop(
                           [request EXCEPT
                               !.slides = WithLastTransition(@, tr)])
               IN  /\ other.totalDuration = loop.totalDuration
                   /\ other.totalFrames = loop.totalFrames
                   /\ Intervals(other.timeline) = Intervals(loop.timeline)

C4_Witness ==
    /\ loop.created /\ ValidDurations(request.slides)
    /\ Len(request.slides) >= 2
    /\ LastOf(request.slides).transition.present
    /\ LastOf(request.slides).transition.type # "none"
    /\ ~LastOf(loop.timeline).transitionOut.present

\* C5: the timeline builder never returns a timeline for an empty slide
\* list or a slide duration <= 0.
C5_BuilderRejectsInvalid ==
    loop.created =>
        /\ Len(request.slides) > 0
        /\ \A i \in 1..Len(request.slides) : request.slides[i].duration > 0

\* 3.5 s in the example timeline
ExampleInstr == renderFrame(FrameTime(7, 2), ExampleLoop.timeline)

\* C6: a time in entry i's transition interval resolves to one transition
\* call from slide i to slide i+1 with entry i's kind and the progress
\* applyEasing((time - transStart) / (transEnd - transStart), easing); 3.5 s
\* in the example is raw progress 1/2 from slide 0 to slide 1.
C6_TransitionInstruction ==
    /\ Called =>
          \A i \in 1..Len(loop.timeline) :
              LET tr == loop.timeline[i].transitionOut
              IN  (tr.present /\ InInterval(Time, tr.startTime, tr.endTime)) =>
                      instr =
                          << [kind |-> "transition",
                              from |-> i, to |-> i + 1,
                              type |-> request.slides[i].transition.type,
                              progress |->
                                  applyEasing(
                                      RatDiv(RatSub(Time,
                                                 RatOfInt(tr.startTime)),
                                             RatOfInt(tr.endTime
                                                      - tr.startTime)),
                                      request.slides[i].transition.easing)] >>
    /\ ExampleInstr =
          << [kind |-> "transition", from |-> 1, to |-> 2, type |-> "fade",
              progress |-> applyEasing(Rat(1, 2), "ease-in-out")] >>

C6_Witness ==
    /\ Called /\ ValidDurations(request.slides)
    /\ Len(instr) = 1
    /\ instr[1].kind = "transition"
    /\ instr[1].progress \notin {RatOfInt(0), RatOfInt(1)}
    /\ LET tr == loop.timeline[instr[1].from].transitionOut
       IN  /\ tr.easing # "linear"
           /\ instr[1].progress #
                  RatDiv(RatSub(Time, RatOfInt(tr.startTime)),
                         RatOfInt(tr.duration))

\* the last slide drawn with its pan/zoom transform at progress 1
LastSlideAtEnd(timeline) ==
    LET last == LastOf(timeline)
        kb == last.slide.kenBurns
    IN  IF kb.present
        THEN [kind |-> "display", image |-> last.image,
              scale |-> RatOfInt(kb.endScale),
              posX |-> RatOfInt(kb.endPosition.x),
              posY |-> RatOfInt(kb.endPosition.y)]
        ELSE drawImageCover(last.image)

\* C7: a time >= totalDuration resolves to the steady display of the last
\* slide at in-slide progress 1, its pan/zoom transform at its end state.
C7_FreezeFrameAtEnd ==
    (Called /\ ValidDurations(request.slides)
       /\ RatLeq(RatOfInt(loop.totalDuration), Time)) =>
        instr = << LastSlideAtEnd(loop.timeline) >>

\* ----------------------------------------------------------- claims C8-C10
\* cancel was requested while the job was in its frame loop, after fewer
\* frames than the job has
CancelledMidJob(job) ==
    /\ job.cancelAt >= 0
    /\ job.cancelAt < job.loop.totalFrames

\* C8: once cancel is requested after N < totalFrames frames of a job, the
\* job renders no further frame, hands no further frame to the encoder once
\* the request is observed, and does not end in success.
C8_CancelStopsJob ==
    \A j \in Jobs :
        CancelledMidJob(jobs[j]) =>
            /\ Len(jobs[j].rendered) = jobs[j].cancelAt
            /\ Len(jobs[j].encoded) <= jobs[j].cancelAt
            /\ jobs[j].pc = "done" => ~jobs[j].outcome.success

UpTo(n) == [k \in 1..n |-> k - 1]

\* C9: a job calls renderFrame with the indices 0, 1, 2, ... in order, each
\* once; frame k is handed to the encoder before renderFrame(k+1); a job
\* that ends in success has rendered and encoded every index below
\* totalFrames once, and finalizing starts only then.
C9_FramesInOrder ==
    \A j \in Jobs :
        LET job == jobs[j]
        IN  /\ job.rendered = UpTo(Len(job.rendered))
            /\ job.encoded = UpTo(Len(job.encoded))
            /\ Len(job.encoded) <= Len(job.rendered)
            /\ Len(job.rendered) <= Len(job.encoded) + 1
            /\ Len(job.rendered) <= job.loop.totalFrames
            /\ (job.pc \in {"finalize", "recorderStop"}
                  \/ (job.pc = "done" /\ job.outcome.success)) =>
                  /\ job.rendered = UpTo(job.loop.totalFrames)
                  /\ job.encoded = UpTo(job.loop.totalFrames)

C9_Witness ==
    \E j \in Jobs :
        /\ jobs[j].pc = "done"
        /\ jobs[j].outcome.success
        /\ driver = "hook"
        /\ Len(jobs[j].rendered) >= 3

\* a job of the hook that has ended did so by returning a result; success
\* only without a failure and with every frame encoded, a failure or a
\* cancellation as success = false with a message
ReturnsOutcome(job) ==
    job.pc = "done" =>
        /\ job.outcome.returned
        /\ ~job.outcome.thrown
        /\ job.outcome.success =>
              /\ job.failure = "none"
              /\ Len(job.encoded) = job.loop.totalFrames
        /\ job.failure # "none" => ~job.outcome.success
        /\ ~job.outcome.success => job.outcome.error.message # ""

\* C10: every failure and every cancellation of generate() is returned as
\* a result with success = false and a message, generate() never throws,
\* and when it returns isProcessing has been set to false.
C10_FailuresReturned ==
    /\ [](driver = "hook" =>
            \A j \in Jobs :
                /\ ~jobs[j].outcome.thrown
                /\ ReturnsOutcome(jobs[j]))
    /\ [][driver = "hook" =>
            \A j \in Jobs :
                (jobs[j].pc # "done" /\ jobs'[j].pc = "done") =>
                    ~isProcessing']_vars

C10_Witness ==
    /\ driver = "hook"
    /\ ~isProcessing
    /\ \E j \in Jobs :
          /\ jobs[j].pc = "done"
          /\ jobs[j].failure = "imageLoad"
          /\ jobs[j].outcome =
                 Returned(FALSE, [message |-> "Failed to load image",
                                  src |-> 2])
    /\ \E j \in Jobs :
          /\ jobs[j].pc = "done"
          /\ jobs[j].outcome = Returned(FALSE, Err("Cancelled"))

\* --------------------------------------------------------- claims C11-C20
\* the part of C11 about order: the timeline of a job exists only once
\* every image is loaded, and a job ended by an image failure has no
\* timeline and has rendered and encoded nothing
LoadedBeforeTimeline(job) ==
    /\ job.loop.created => job.images = Len(request.slides)
    /\ job.failure = "imageLoad" =>
          /\ job.pc = "done"
          /\ ~job.outcome.success
          /\ ~job.loop.created
          /\ job.rendered = << >>
          /\ job.encoded = << >>
          /\ job.surface = << >>

\* C11: a job builds its timeline only after the image of every slide is
\* loaded; a job whose image loading failed has ended in a failure that
\* names the slide whose image failed, has no timeline and has rendered no
\* frame.
C11_LoadBeforeTimeline ==
    \A j \in Jobs :
        /\ LoadedBeforeTimeline(jobs[j])
        /\ jobs[j].failure = "imageLoad" =>
              jobs[j].outcome.error.src = jobs[j].images + 1

\* C12: the canvas and the drawing state of its context after
\* renderFrame(k) are those renderFrame(k) leaves on a blank canvas, whatever
\* calls of renderFrame came before.
C12_HistoryIndependent ==
    Called =>
        canvas = renderFrameOn(BlankCanvas, Time, loop.timeline,
                               request.backgroundColor)

\* C13: applyEasing(0, kind) = 0 and applyEasing(1, kind) = 1 for each of
\* the four easing kinds.
C13_EasingFixedPoints ==
    /\ \A kind \in EasingTypes :
           /\ applyEasing(RatOfInt(0), kind) = RatOfInt(0)
           /\ applyEasing(RatOfInt(1), kind) = RatOfInt(1)
    /\ easingCall.made =>
           /\ easingCall.t = RatOfInt(0) => easingCall.result = RatOfInt(0)
           /\ easingCall.t = RatOfInt(1) => easingCall.result = RatOfInt(1)

C13_Witness ==
    /\ easingCall.made
    /\ easingCall.easing = "ease-out"
    /\ easingCall.t = RatOfInt(1)
    /\ easingCall.result = RatOfInt(1)

\* C14: at p = 1/2 the two branch formulas of ease-in-out, 4p^3 and
\* 1 - (-2p+2)^3 / 2, both give 1/2, and applyEasing(1/2, ease-in-out)
\* returns 1/2.
C14_MidpointContinuous ==
    (easingCall.made /\ easingCall.easing = "ease-in-out"
       /\ easingCall.t = Rat(1, 2)) =>
        /\ easingCall.result = Rat(1, 2)
        /\ EaseInOutLow(easingCall.t.n, easingCall.t.d) = easingCall.result
        /\ EaseInOutHigh(easingCall.t.n, easingCall.t.d) = easingCall.result

C14_Witness ==
    /\ easingCall.made
    /\ easingCall.easing = "ease-in-out"
    /\ easingCall.t = Rat(1, 2)
    /\ easingCall.result = Rat(1, 2)

\* the job has created no canvas, loaded no image, built no timeline,
\* rendered no frame and handed nothing to the encoder
NothingStarted(job) ==
    /\ ~job.canvasCreated
    /\ job.images = 0
    /\ ~job.loop.created
    /\ job.rendered = << >>
    /\ job.encoded = << >>
    /\ job.surface = << >>

\* an empty slide list, or a slide duration outside 0.1 s .. 60 s
OutOfRange(req) ==
    \/ Len(req.slides) = 0
    \/ \E i \in 1..Len(req.slides) :
          \/ 10 * req.slides[i].duration < TicksPerSec
          \/ req.slides[i].duration > 60 * TicksPerSec

\* C15: a job of generate() whose request the validation step rejects
\* returns a failure, and it creates no drawing surface, loads no image,
\* builds no timeline, renders no frame and hands nothing to the encoder;
\* no job with an invalid request gets past the validation step.
C15_InvalidFailsFast ==
    driver = "hook" =>
        \A j \in Jobs :
            /\ jobs[j].failure = "validation" =>
                  /\ jobs[j].pc = "done"
                  /\ jobs[j].outcome.returned
                  /\ ~jobs[j].outcome.success
                  /\ NothingStarted(jobs[j])
            /\ OutOfRange(request) => NothingStarted(jobs[j])

C15_Witness ==
    /\ driver = "hook"
    /\ Len(request.slides) = 2
    /\ request.slides[1].duration > 0
    /\ request.slides[2].duration = 0
    /\ \E j \in Jobs :
          /\ jobs[j].pc = "done"
          /\ jobs[j].failure = "validation"
          /\ jobs[j].outcome = Returned(FALSE, Err("Invalid request"))

\* the steady display of a timeline entry at in-slide progress p: the image
\* under the pan/zoom transform interpolated at p, or untransformed
SteadyDisplay(entry, p) ==
    LET kb == entry.slide.kenBurns
    IN  IF kb.present
        THEN [kind |-> "display", image |-> entry.image,
              scale |-> Lerp(kb.startScale, kb.endScale, p),
              posX |-> Lerp(kb.startPosition.x, kb.endPosition.x, p),
              posY |-> Lerp(kb.startPosition.y, kb.endPosition.y, p)]
        ELSE [kind |-> "display", image |-> entry.image,
              scale |-> RatOfInt(1), posX |-> RatOfInt(0),
              posY |-> RatOfInt(0)]

\* C16: for slides with positive durations, a time with startTime <= time
\* < endTime of entry i resolves to the steady display of slide i at
\* in-slide progress (time - startTime) / duration; time = endTime of entry
\* i resolves to the transition out of slide i at progress 0 when the entry
\* has a transition interval, and otherwise to the steady display of slide
\* i+1 at progress 0.
C16_HalfOpenDisplay ==
    (Called /\ ValidDurations(request.slides)) =>
        \A i \in 1..Len(loop.timeline) :
            LET e == loop.timeline[i]
            IN  /\ InInterval(Time, e.startTime, e.endTime) =>
                      instr =
                          << SteadyDisplay(e,
                                 RatDiv(RatSub(Time, RatOfInt(e.startTime)),
                                        RatOfInt(e.slide.duration))) >>
                /\ (Time = RatOfInt(e.endTime) /\ e.transitionOut.present) =>
                      /\ Len(instr) = 1
                      /\ instr[1].kind = "transition"
                      /\ instr[1].from = i
                      /\ instr[1].to = i + 1
                      /\ instr[1].progress = RatOfInt(0)
                /\ (Time = RatOfInt(e.endTime) /\ ~e.transitionOut.present
                       /\ i < Len(loop.timeline)) =>
                      instr = << SteadyDisplay(loop.timeline[i + 1],
                                               RatOfInt(0)) >>

C16_Witness ==
    /\ Called /\ ValidDurations(request.slides)
    /\ Len(loop.timeline) = 2
    /\ ~loop.timeline[1].transitionOut.present
    /\ loop.timeline[1].slide.kenBurns.present
    /\ loop.timeline[2].slide.kenBurns.present
    /\ Time = RatOfInt(loop.timeline[1].endTime)
    /\ instr = << SteadyDisplay(loop.timeline[2], RatOfInt(0)) >>
    /\ instr # << SteadyDisplay(loop.timeline[1], RatOfInt(1)) >>

\* C17: no timeline entry without a successor carries a transition
\* interval (so the resolver's branch for a missing next entry is never
\* taken), and no call of renderFrame makes a transition call whose from
\* slide is the last slide or whose to slide does not exist.
C17_NoTransitionFromLast ==
    /\ loop.created =>
          \A i \in 1..Len(loop.timeline) :
              loop.timeline[i].transitionOut.present => i < Len(loop.timeline)
    /\ Called =>
          \A c \in 1..Len(instr) :
              instr[c].kind = "transition" =>
                  /\ instr[c].from < Len(loop.timeline)
                  /\ instr[c].to = instr[c].from + 1
                  /\ instr[c].to <= Len(loop.timeline)

C17_Witness ==
    /\ Called /\ ValidDurations(request.slides)
    /\ Len(request.slides) = 2
    /\ LastOf(request.slides).transition.present
    /\ LastOf(request.slides).transition.type = "fade"
    /\ InInterval(Time, LastOf(loop.timeline).startTime,
                  LastOf(loop.timeline).endTime)
    /\ frameIndex = loop.totalFrames - 1
    /\ instr = << SteadyDisplay(LastOf(loop.timeline),
                      RatDiv(RatSub(Time,
                                 RatOfInt(LastOf(loop.timeline).startTime)),
                             RatOfInt(LastOf(request.slides).duration))) >>

\* C18: a non-last slide's entry has a transition interval exactly when the
\* slide has a transition of a kind other than none, and the interval is as
\* long as the configured transition duration; after a non-last slide with
\* no transition or kind none the next entry starts at this entry's display
\* end; no transition call has kind none.
C18_TransitionIffNotNone ==
    /\ loop.created =>
          \A i \in 1..(Len(loop.timeline) - 1) :
              LET e == loop.timeline[i]
                  cfg == request.slides[i].transition
              IN  /\ e.transitionOut.present <=>
                         (cfg.present /\ cfg.type # "none")
                  /\ e.transitionOut.present =>
                         /\ e.transitionOut.startTime = e.endTime
                         /\ e.transitionOut.endTime - e.transitionOut.startTime
                                = cfg.duration
                         /\ loop.timeline[i + 1].startTime
                                = e.transitionOut.endTime
                  /\ ~e.transitionOut.present =>
                         loop.timeline[i + 1].startTime = e.endTime
    /\ Called =>
          \A c \in 1..Len(instr) :
              instr[c].kind = "transition" => instr[c].type # "none"

C18_Witness ==
    /\ Called /\ ValidDurations(request.slides)
    /\ Len(request.slides) = 2
    /\ request.slides[1].transition.present
    /\ request.slides[1].transition.type = "none"
    /\ ~loop.timeline[1].transitionOut.present
    /\ loop.timeline[2].startTime = loop.timeline[1].endTime
    /\ Time = RatOfInt(loop.timeline[1].endTime)
    /\ instr[1].kind = "display"
    /\ instr[1].image = 2

\* C19: in both drivers the progress events of a job report currentFrame =
\* 1, 2, 3, ... in order, one for each rendered frame, and the event that
\* reports currentFrame = k is emitted when frame k-1 has been rendered.
C19_ProgressAfterRender ==
    \A j \in Jobs :
        LET job == jobs[j]
        IN  /\ Len(job.events) <= Len(job.rendered)
            /\ \A e \in 1..Len(job.events) :
                   /\ job.events[e].currentFrame = e
                   /\ job.events[e].rendered >= job.events[e].currentFrame

\* the transform that scales by s about the centre of the canvas
CentredScale(s) ==
    [ax |-> s, cx |-> RatMul(Rat(Width, 2), OneMinus(s)),
     ay |-> s, cy |-> RatMul(Rat(Height, 2), OneMinus(s))]

\* C20: after a zoom transition frame at a progress strictly between 0 and
\* 1, the image drawn last is the scaled one, and it was drawn with the
\* fading alpha in force: for zoom-in the to image, scaled by progress
\* about the centre, at alpha progress; for zoom-out the from image, scaled
\* by 1 + progress, at alpha 1 - progress.
C20_ZoomOpacity ==
    (Called /\ Len(instr) = 1 /\ instr[1].kind = "transition"
       /\ instr[1].type \in {"zoom-in", "zoom-out"}
       /\ RatLess(RatOfInt(0), instr[1].progress)) =>
        LET progress == instr[1].progress
            top == canvas.pixels[Len(canvas.pixels)]
        IN  /\ top.op = "image"
            /\ IF instr[1].type = "zoom-in"
               THEN /\ top.image = instr[1].to
                    /\ top.transform = CentredScale(progress)
                    /\ top.alpha = progress
               ELSE /\ top.image = instr[1].from
                    /\ top.transform =
                           CentredScale(RatAdd(RatOfInt(1), progress))
                    /\ top.alpha = OneMinus(progress)

\* ---------------------------------------------------------------------
\* C21: the Ken Burns evaluator interpolates linearly with clamped
\* progress.  For a slide of positive duration, with
\* p = (time - startTime) / duration and t = p clamped to [0, 1], the image
\* is drawn with scale = startScale + (endScale - startScale) * t and each
\* offset axis = start + (end - start) * t; p <= 0 gives exactly the start
\* values, p >= 1 exactly the end values; a slide without a kenBurns spec
\* is drawn with the identity transform.
KenBurnsAt(start, end, t) ==
    RatAdd(RatOfInt(start), RatMul(RatOfInt(end - start), t))

C21_KenBurnsLerp ==
    (kenBurnsCall.made /\ kenBurnsCall.entry.slide.duration > 0) =>
        LET entry == kenBurnsCall.entry
            kb == entry.slide.kenBurns
            drawn == kenBurnsCall.result
            p == RatDiv(RatSub(kenBurnsCall.time, RatOfInt(entry.startTime)),
                        RatOfInt(entry.slide.duration))
            t == IF RatLeq(p, RatOfInt(0)) THEN RatOfInt(0)
                 ELSE IF RatLeq(RatOfInt(1), p) THEN RatOfInt(1)
                 ELSE p
        IN  /\ drawn.kind = "display"
            /\ drawn.image = entry.image
            /\ IF kb.present
               THEN /\ drawn.scale = KenBurnsAt(kb.startScale, kb.endScale, t)
                    /\ drawn.posX = KenBurnsAt(kb.startPosition.x,
                                               kb.endPosition.x, t)
                    /\ drawn.posY = KenBurnsAt(kb.startPosition.y,
                                               kb.endPosition.y, t)
                    /\ RatLeq(p, RatOfInt(0)) =>
                           /\ drawn.scale = RatOfInt(kb.startScale)
                           /\ drawn.posX = RatOfInt(kb.startPosition.x)
                           /\ drawn.posY = RatOfInt(kb.startPosition.y)
                    /\ RatLeq(RatOfInt(1), p) =>
                           /\ drawn.scale = RatOfInt(kb.endScale)
                           /\ drawn.posX = RatOfInt(kb.endPosition.x)
                           /\ drawn.posY = RatOfInt(kb.endPosition.y)
               ELSE /\ drawn.scale = RatOfInt(1)
                    /\ drawn.posX = RatOfInt(0)
                    /\ drawn.posY = RatOfInt(0)

\* a call past the end of the slide of a panned slide, drawn with the end
\* values
C21_Witness ==
    /\ kenBurnsCall.made
    /\ kenBurnsCall.entry.slide.kenBurns.present
    /\ kenBurnsCall.entry.slide.duration > 0
    /\ RatLess(RatOfInt(kenBurnsCall.entry.endTime), kenBurnsCall.time)
    /\ kenBurnsCall.result.scale =
           RatOfInt(kenBurnsCall.entry.slide.kenBurns.endScale)

\* ---------------------------------------------------------------------
\* C22: the effect renderer treats kind "none" and a kind it does not
\* recognise identically, as a hard cut at the midpoint: after the call
\* the canvas holds only `from` while progress < 0.5 and only `to` when
\* progress >= 0.5, drawn once at full opacity (never both, never a
\* blend); an absent image is skipped, leaving the cleared canvas.
HardCut(from, to, progress) ==
    LET img == IF RatLess(progress, Rat(1, 2)) THEN from ELSE to
    IN  IF img = NullImage THEN << >>
        ELSE << [op |-> "image", image |-> img, colour |-> "",
                 alpha |-> RatOfInt(1), transform |-> Identity,
                 filter |-> NoFilter, clip |-> NoClip] >>

C22_HardCut ==
    (effectCall.made /\ effectCall.type \in {"none", "sparkle"}) =>
        /\ canvas.pixels =
               HardCut(effectCall.from, effectCall.to, effectCall.progress)
        /\ canvas.stack = << >>
        /\ canvas.alpha = RatOfInt(1)

\* an unrecognised kind at the midpoint, both images present: only `to`
C22_Witness ==
    /\ effectCall.made
    /\ effectCall.type = "sparkle"
    /\ effectCall.progress = Rat(1, 2)
    /\ effectCall.from = 1
    /\ effectCall.to = 2
    /\ Len(canvas.pixels) = 1
    /\ canvas.pixels[1].image = 2

\* ---------------------------------------------------------------------
\* C23: applyEasing saturates.  For every kind and every t, below 0 and
\* above 1 included, the result lies in [0, 1] and equals the result for
\* t clamped to [0, 1]; t <= 0 gives 0 and t >= 1 gives 1; on [0, 1] every
\* easing is monotonically non-decreasing.
Saturated(t) ==
    IF RatLeq(t, RatOfInt(0)) THEN RatOfInt(0)
    ELSE IF RatLeq(RatOfInt(1), t) THEN RatOfInt(1)
    ELSE t

C23_EasingSaturates ==
    easingCall.made =>
        LET t == easingCall.t
            easing == easingCall.easing
            result == easingCall.result
        IN  /\ RatLeq(RatOfInt(0), result)
            /\ RatLeq(result, RatOfInt(1))
            /\ result = applyEasing(Saturated(t), easing)
            /\ RatLeq(t, RatOfInt(0)) => result = RatOfInt(0)
            /\ RatLeq(RatOfInt(1), t) => result = RatOfInt(1)
            /\ \A u \in EasingInputs :
                   (RatLeq(RatOfInt(0), u) /\ RatLeq(u, t)
                      /\ RatLeq(t, RatOfInt(1))) =>
                       RatLeq(applyEasing(u, easing), result)

\* a call above 1 that saturates at 1
C23_Witness ==
    /\ easingCall.made
    /\ easingCall.easing = "ease-in-out"
    /\ RatLess(RatOfInt(1), easingCall.t)
    /\ easingCall.result = RatOfInt(1)

\* ---------------------------------------------------------------------
\* C24: for every timeline with totalDuration > 0 and fps >= 1, every
\* frame index k the render loop visits (0 <= k < ceil(totalDuration *
\* fps)) maps to a time k / fps strictly below totalDuration, so the frame
\* falls in a display or transition interval and the past-the-end
\* fallback is never taken by the render loop.
C24_LoopFramesBeforeEnd ==
    doubleLoop.frameIndex >= 0 =>
        /\ DoubleLess(doubleLoop.time, doubleLoop.totalDuration)
        /\ doubleLoop.shown = "display"

\* ---------------------------------------------------------------------
\* C25: over the frames of a job in increasing index order the rendered
\* content never goes backwards: the slide shown (for a transition frame,
\* its `from` slide) is non-decreasing, a steady display of slide i never
\* follows a transition frame out of slide i, and a transition i -> i+1
\* never follows a steady display of slide i+1.
\* The place of a frame's content in the show: 2i for the steady display
\* of slide i, 2i + 1 for the transition out of slide i.
Stage(calls) ==
    IF calls[1].kind = "display" THEN 2 * calls[1].image
    ELSE 2 * calls[1].from + 1

C25_NeverBackwards ==
    [][(/\ Called
        /\ frameIndex' > frameIndex
        /\ frameIndex' < loop.totalFrames
        /\ instr # << >> /\ instr' # << >>) =>
           /\ Stage(instr) <= Stage(instr')
           /\ instr'[1].kind = "transition" =>
                  instr'[1].to = instr'[1].from + 1]_vars

\* a later frame of a show with a transition: the steady display of the
\* second slide
C25_Witness ==
    /\ Called
    /\ frameIndex > 0 /\ frameIndex < loop.totalFrames
    /\ loop.timeline[1].transitionOut.present
    /\ instr # << >>
    /\ instr[1].kind = "display"
    /\ instr[1].image = 2

\* ---------------------------------------------------------------------
\* C26: after renderFrame, for a steady, a transition or a fallback time,
\* the configured background colour has been painted over the whole
\* canvas beneath the images: the lowest layer the canvas holds is the
\* background fill, or an opaque image that covers the canvas and hides
\* it; no path leaves the background cleared.
C26_BackgroundPainted ==
    Called =>
        /\ canvas.pixels # << >>
        /\ \/ /\ canvas.pixels[1].op = "fill"
              /\ canvas.pixels[1].colour = request.backgroundColor
           \/ CoversCanvas(canvas.pixels[1])

\* ---------------------------------------------------------------------
\* C27: in useImageToVideo a cancel() issued while a job is in its frame
\* loop is never lost, in every interleaving, a generate() invoked again
\* before the job's next per-frame check included: the job renders no
\* frame beyond those rendered when cancel() was called (at least one, so
\* that the job is inside the loop), and unless something else fails it
\* ends with the result Cancelled.
C27_CancelNeverLost ==
    driver = "hook" =>
        \A j \in Jobs :
            LET job == jobs[j]
            IN  (CancelledMidJob(job) /\ job.cancelAt >= 1) =>
                    /\ Len(job.rendered) <= job.cancelAt
                    /\ (job.pc = "done" /\ job.failure = "none") =>
                           /\ job.outcome.returned
                           /\ ~job.outcome.success
                           /\ job.outcome.error = Err("Cancelled")

\* ---------------------------------------------------------------------
\* C28: for every valid request the response of POST /api/image-to-video
\* has metadata.transitionCount equal to the number of entries of the
\* returned timeline that carry a transition interval.
C28_TransitionCount ==
    apiResponse.status = 200 =>
        apiResponse.metadata.transitionCount =
            Cardinality({i \in 1..Len(apiResponse.timeline) :
                            apiResponse.timeline[i].transition.present})

====
